---- MODULE Spec2Model ----
(***************************************************************************)
(* State machine of the game-state core of hamada-yed7ak:                  *)
(*   - useGameState (src/src/hooks/useGameProgress.js, second module):     *)
(*     persisted profile/progress/settings, the per-level session, and     *)
(*     the localStorage round trip;                                        *)
(*   - AudioManagerClass (src/unnamed/part_007): the volume/mute fields;   *)
(*   - App (src/unnamed/part_001): navigation handlers and their timers.   *)
(*                                                                         *)
(* JavaScript objects are functions from keys to values, `{...a, ...b}` is *)
(* Spread(a, b), arrays are sequences.  Object keys are strings, so the    *)
(* keys of bestScores are the decimal strings of the level ids.            *)
(* haptics.intensity (a float in 0.0..1.0) is kept in tenths.              *)
(***************************************************************************)
EXTENDS Integers, Sequences, FiniteSets, TLC

\* ------------------------------------------------------------------------
\* Bounds of the model (not program constants)
\* ------------------------------------------------------------------------
NumPlayerIds == 2      \* generatePlayerId() draws from 1..NumPlayerIds
MaxAttempt   == 5      \* getPointsForAttempt is called with 1..MaxAttempt
MaxTimers    == 1      \* pending deferred callbacks of each kind
MaxWonLevel  == 2      \* the player presses Next Level on levels 1..MaxWonLevel
MaxBgmCalls  == 2      \* playBGM calls of one page
MaxFades     == 1      \* fadeOutBGM timers pending at once
NumImages    == 2      \* image paths of a level object handed to the preloader
MaxPreloads  == 2      \* preloadLevel runs in flight at a time

\* ------------------------------------------------------------------------
\* Program constants
\* ------------------------------------------------------------------------
NumLevels     == 4     \* gameLevels.length
INITIAL_LIVES == 3     \* GAME_CONFIG.INITIAL_LIVES
MaxNameLen    == 20    \* substring(0, 20) in setPlayerName

LevelIds == 1..NumLevels
MouthIds == {"m1", "m2", "m3", "m4"}

\* gameLevels[i].correctMouth, i 0-based
CorrectMouth(levelIndex) ==
    CASE levelIndex = 0 -> "m2"
      [] levelIndex = 1 -> "m3"
      [] levelIndex = 2 -> "m1"
      [] levelIndex = 3 -> "m4"
      [] OTHER          -> "m2"   \* gameLevels[levelIndex] || gameLevels[0]

POINTS_BY_ATTEMPT == (1 :> 100) @@ (2 :> 70) @@ (3 :> 40)

\* ------------------------------------------------------------------------
\* JavaScript helpers
\* ------------------------------------------------------------------------
EmptyObj == <<>>

Spread(a, b) ==
    [k \in (DOMAIN a) \cup (DOMAIN b) |-> IF k \in DOMAIN b THEN b[k] ELSE a[k]]

Includes(arr, x) == \E i \in 1..Len(arr) : arr[i] = x

Max(a, b) == IF a >= b THEN a ELSE b
Min(a, b) == IF a <= b THEN a ELSE b

\* String(levelId): the property key a numeric level id turns into
KeyStr(n) ==
    CASE n = 0 -> "0" [] n = 1 -> "1" [] n = 2 -> "2" [] n = 3 -> "3"
      [] n = 4 -> "4" [] n = 5 -> "5" [] OTHER -> "6"

\* obj[key] || 0
GetOr0(obj, key) == IF key \in DOMAIN obj THEN obj[key] ELSE 0

\* Object.values(obj).reduce((sum, s) => sum + s, 0)
RECURSIVE SumValues(_)
SumValues(obj) ==
    IF DOMAIN obj = {} THEN 0
    ELSE LET k == CHOOSE x \in DOMAIN obj : TRUE
         IN  obj[k] + SumValues([j \in (DOMAIN obj) \ {k} |-> obj[j]])

\* ------------------------------------------------------------------------
\* DEFAULT_STATE
\* ------------------------------------------------------------------------
NullId == 0    \* playerId: null

DEFAULT_SETTINGS ==
    [ audio |-> [ musicVolume |-> 70, sfxVolume |-> 80,
                  isMusicMuted |-> FALSE, isSfxMuted |-> FALSE ],
      haptics |-> [ enabled |-> TRUE, intensity |-> 7 ],
      accessibility |-> [ screenReaderMode |-> FALSE, highContrast |-> FALSE,
                          reduceMotion |-> FALSE ] ]

DEFAULT_STATE ==
    [ version |-> 3,
      playerName |-> <<>>,
      playerId |-> NullId,
      unlockedLevels |-> <<1>>,
      completedLevels |-> <<>>,
      bestScores |-> EmptyObj,
      highScore |-> 0,
      totalScore |-> 0,
      settings |-> DEFAULT_SETTINGS ]

\* ------------------------------------------------------------------------
\* JSON.stringify / JSON.parse.  The text is kept as the set of paths that
\* are objects and the map from leaf paths to their scalar (or array).
\* ------------------------------------------------------------------------
IsObjectPath(p) ==
    \/ p = <<>>
    \/ (Len(p) = 1 /\ p[1] \in {"bestScores", "settings"})
    \/ (Len(p) = 2 /\ p[1] = "settings")

RECURSIVE ValueAt(_, _)
ValueAt(v, p) == IF p = <<>> THEN v ELSE ValueAt(v[Head(p)], Tail(p))

RECURSIVE ObjectPaths(_, _)
ObjectPaths(v, pre) ==
    IF IsObjectPath(pre)
    THEN {pre} \cup UNION { ObjectPaths(v[k], Append(pre, k)) : k \in DOMAIN v }
    ELSE {}

RECURSIVE LeafPaths(_, _)
LeafPaths(v, pre) ==
    IF IsObjectPath(pre)
    THEN UNION { LeafPaths(v[k], Append(pre, k)) : k \in DOMAIN v }
    ELSE {pre}

JSONStringify(v) ==
    [ objs   |-> ObjectPaths(v, <<>>),
      leaves |-> [ p \in LeafPaths(v, <<>>) |-> ValueAt(v, p) ] ]

IsPrefix(pre, q) == Len(q) > Len(pre) /\ SubSeq(q, 1, Len(pre)) = pre

ChildKeys(text, pre) ==
    { q[Len(pre) + 1] : q \in { r \in (DOMAIN text.leaves) \cup text.objs : IsPrefix(pre, r) } }

RECURSIVE ParseAt(_, _)
ParseAt(text, pre) ==
    IF pre \in text.objs
    THEN [ k \in ChildKeys(text, pre) |-> ParseAt(text, Append(pre, k)) ]
    ELSE text.leaves[pre]

JSONParse(text) == ParseAt(text, <<>>)

\* ------------------------------------------------------------------------
\* loadPersistedState.  stored is localStorage[STORAGE_KEY]: the empty
\* sequence when the key is absent, else a one-element sequence holding the
\* text; newId is the result generatePlayerId() would give.
\* ------------------------------------------------------------------------
OptField(obj, k) == IF k \in DOMAIN obj THEN obj[k] ELSE EmptyObj

\* a text JSON.parse accepts; on any other text it throws a SyntaxError into
\* the catch block, which falls through to the defaults
IsJSONText(text) == <<>> \in text.objs

\* loadPersistedState that never takes the stored playerId
loadPersistedState_AlwaysNewId(stored, newId) ==
    IF Len(stored) > 0 /\ IsJSONText(stored[1])
    THEN LET parsed == JSONParse(stored[1])
             pset   == OptField(parsed, "settings")
         IN  Spread(Spread(DEFAULT_STATE, parsed),
               [ playerId |-> newId,
                 settings |->
                   Spread(Spread(DEFAULT_SETTINGS, pset),
                     [ audio   |-> Spread(DEFAULT_SETTINGS.audio, OptField(pset, "audio")),
                       haptics |-> Spread(DEFAULT_SETTINGS.haptics, OptField(pset, "haptics")),
                       accessibility |-> Spread(DEFAULT_SETTINGS.accessibility,
                                                OptField(pset, "accessibility")) ]) ])
    ELSE Spread(DEFAULT_STATE, [ playerId |-> newId ])

\* loadPersistedState with the settings groups taken whole from the blob
loadPersistedState_ShallowSettings(stored, newId) ==
    IF Len(stored) > 0 /\ IsJSONText(stored[1])
    THEN LET parsed == JSONParse(stored[1])
             pset   == OptField(parsed, "settings")
         IN  Spread(Spread(DEFAULT_STATE, parsed),
               [ playerId |-> IF "playerId" \in DOMAIN parsed /\ parsed.playerId # NullId
                              THEN parsed.playerId ELSE newId,
                 settings |-> Spread(DEFAULT_SETTINGS, pset) ])
    ELSE Spread(DEFAULT_STATE, [ playerId |-> newId ])

\* loadPersistedState with the audio group merged the wrong way round
loadPersistedState_DefaultsWin(stored, newId) ==
    IF Len(stored) > 0 /\ IsJSONText(stored[1])
    THEN LET parsed == JSONParse(stored[1])
             pset   == OptField(parsed, "settings")
         IN  Spread(Spread(DEFAULT_STATE, parsed),
               [ playerId |-> IF "playerId" \in DOMAIN parsed /\ parsed.playerId # NullId
                              THEN parsed.playerId ELSE newId,
                 settings |->
                   Spread(Spread(DEFAULT_SETTINGS, pset),
                     [ audio   |-> Spread(OptField(pset, "audio"), DEFAULT_SETTINGS.audio),
                       haptics |-> Spread(DEFAULT_SETTINGS.haptics, OptField(pset, "haptics")),
                       accessibility |-> Spread(DEFAULT_SETTINGS.accessibility,
                                                OptField(pset, "accessibility")) ]) ])
    ELSE Spread(DEFAULT_STATE, [ playerId |-> newId ])

loadPersistedState(stored, newId) ==
    IF Len(stored) > 0 /\ IsJSONText(stored[1])
    THEN LET parsed == JSONParse(stored[1])
             pset   == OptField(parsed, "settings")
         IN  Spread(Spread(DEFAULT_STATE, parsed),
               [ playerId |-> IF "playerId" \in DOMAIN parsed /\ parsed.playerId # NullId
                              THEN parsed.playerId ELSE newId,
                 settings |->
                   Spread(Spread(DEFAULT_SETTINGS, pset),
                     [ audio   |-> Spread(DEFAULT_SETTINGS.audio, OptField(pset, "audio")),
                       haptics |-> Spread(DEFAULT_SETTINGS.haptics, OptField(pset, "haptics")),
                       accessibility |-> Spread(DEFAULT_SETTINGS.accessibility,
                                                OptField(pset, "accessibility")) ]) ])
    ELSE Spread(DEFAULT_STATE, [ playerId |-> newId ])

\* ------------------------------------------------------------------------
\* AudioManagerClass (volume / mute part)
\* ------------------------------------------------------------------------
NoGain == -1    \* this.musicGain / this.sfxGain still null

NoContext == 0  \* this.audioContext still null

\* audioContext is the serial number of the AudioContext object the manager
\* holds: a context constructed later is another object
AudioManagerNew ==
    [ audioContext |-> NoContext, masterGain |-> NoGain,
      musicVolume |-> 70, sfxVolume |-> 80,
      isMusicMuted |-> FALSE, isSfxMuted |-> FALSE,
      musicGain |-> NoGain, sfxGain |-> NoGain,
      initialized |-> FALSE ]

\* Math.max(0, Math.min(100, volume))
Clamp(volume) == Max(0, Min(100, volume))

\* the gain is kept in hundredths: volume / 100
setMusicVolume(a, volume) ==
    LET v == Clamp(volume)
    IN  [ a EXCEPT !.musicVolume = v,
                   !.musicGain = IF a.musicGain # NoGain
                                 THEN (IF a.isMusicMuted THEN 0 ELSE v)
                                 ELSE NoGain ]

setSfxVolume(a, volume) ==
    LET v == Clamp(volume)
    IN  [ a EXCEPT !.sfxVolume = v,
                   !.sfxGain = IF a.sfxGain # NoGain
                               THEN (IF a.isSfxMuted THEN 0 ELSE v)
                               ELSE NoGain ]

\* init() without the test of this.initialized
AudioInit_NoGuard(a, supported) ==
    IF ~supported THEN a
    ELSE LET g == [ a EXCEPT !.audioContext = a.audioContext + 1,
                             !.masterGain = 100,
                             !.musicGain = 100, !.sfxGain = 100 ]
         IN  [ setSfxVolume(setMusicVolume(g, g.musicVolume), g.sfxVolume)
                 EXCEPT !.initialized = TRUE ]

\* init(): supported tells whether `new AudioContext()` succeeds
AudioInit(a, supported) ==
    IF a.initialized THEN a
    ELSE IF ~supported THEN a
    ELSE LET g == [ a EXCEPT !.audioContext = a.audioContext + 1,
                             !.masterGain = 100,                    \* createGain(): gain 1
                             !.musicGain = 100, !.sfxGain = 100 ]
         IN  [ setSfxVolume(setMusicVolume(g, g.musicVolume), g.sfxVolume)
                 EXCEPT !.initialized = TRUE ]

toggleMusicMute(a) ==
    LET m == [ a EXCEPT !.isMusicMuted = ~a.isMusicMuted ]
    IN  [ am |-> setMusicVolume(m, m.musicVolume), ret |-> m.isMusicMuted ]

toggleSfxMute(a) ==
    LET m == [ a EXCEPT !.isSfxMuted = ~a.isSfxMuted ]
    IN  [ am |-> setSfxVolume(m, m.sfxVolume), ret |-> m.isSfxMuted ]

\* toggleMute that mutes only when neither bus is muted
AudioToggleMute_BothUnmuted(a) ==
    LET shouldMute == ~a.isMusicMuted /\ ~a.isSfxMuted
        m == [ a EXCEPT !.isMusicMuted = shouldMute, !.isSfxMuted = shouldMute ]
    IN  [ am |-> setSfxVolume(setMusicVolume(m, m.musicVolume), m.sfxVolume),
          ret |-> shouldMute ]

AudioToggleMute(a) ==
    LET shouldMute == ~a.isMusicMuted \/ ~a.isSfxMuted
        m == [ a EXCEPT !.isMusicMuted = shouldMute, !.isSfxMuted = shouldMute ]
    IN  [ am |-> setSfxVolume(setMusicVolume(m, m.musicVolume), m.sfxVolume),
          ret |-> shouldMute ]

restoreState(a, state) ==
    LET r == [ a EXCEPT !.musicVolume = IF "musicVolume" \in DOMAIN state
                                        THEN state.musicVolume ELSE @,
                        !.sfxVolume = IF "sfxVolume" \in DOMAIN state
                                      THEN state.sfxVolume ELSE @,
                        !.isMusicMuted = IF "isMusicMuted" \in DOMAIN state
                                         THEN state.isMusicMuted ELSE @,
                        !.isSfxMuted = IF "isSfxMuted" \in DOMAIN state
                                       THEN state.isSfxMuted ELSE @ ]
    IN  IF r.initialized
        THEN setSfxVolume(setMusicVolume(r, r.musicVolume), r.sfxVolume)
        ELSE r

\* the "sync AudioManager with settings" effect of useGameState
SyncAudio(a, ps) ==
    LET audioSettings == ps.settings.audio
    IN  restoreState(a, [ k \in (DOMAIN audioSettings) \cap
                                 {"musicVolume", "sfxVolume", "isMusicMuted", "isSfxMuted"}
                          |-> audioSettings[k] ])

\* ------------------------------------------------------------------------
\* Background music of the AudioManager.  A playBGM call is known by its
\* place in calls, and so is the buffer source node it creates:
\*   bgmSource     this.bgmSource, NoSource for null
\*   isBgmPlaying  this.isBgmPlaying
\*   started       the source nodes started and not stopped: what is heard
\*   calls         the playBGM calls so far, each with its url and whether
\*                 its fetch and decode are still pending
\*   fadeTimers    pending setTimeout callbacks of fadeOutBGM
\* ------------------------------------------------------------------------
NoSource == 0

BgmNew ==
    [ bgmSource |-> NoSource, isBgmPlaying |-> FALSE, started |-> {},
      calls |-> <<>>, fadeTimers |-> 0 ]

stopBGM(b) ==
    IF b.bgmSource # NoSource /\ b.isBgmPlaying
    THEN [ b EXCEPT !.started = @ \ {b.bgmSource},
                    !.bgmSource = NoSource,
                    !.isBgmPlaying = FALSE ]
    ELSE b

\* playBGM up to its first await of fetch
playBGM(b, url) ==
    [ stopBGM(b) EXCEPT !.calls = Append(@, [ url |-> url, pending |-> TRUE ]) ]

\* the rest of playBGM once fetch and decodeAudioData have settled; decoded
\* is FALSE when one of them threw into the catch block
bgmDecoded(b, i, decoded) ==
    LET done == [ b EXCEPT !.calls[i].pending = FALSE ]
    IN  IF decoded
        THEN [ done EXCEPT !.bgmSource = i,
                           !.started = @ \cup {i},
                           !.isBgmPlaying = TRUE ]
        ELSE done

\* fadeOutBGM: the music gain ramps to 0 and a timer is set
fadeOutBGM(a, b) ==
    IF a.musicGain = NoGain \/ ~b.isBgmPlaying
    THEN [ am |-> a, bgm |-> b ]
    ELSE [ am |-> [ a EXCEPT !.musicGain = 0 ],
           bgm |-> [ b EXCEPT !.fadeTimers = @ + 1 ] ]

\* ------------------------------------------------------------------------
\* useAssetPreloader(level, levelIndex)
\*   the hook's state is one record: the levelIndex of the last render,
\*   previousLevelRef, isReady, progress, cacheRef (the cached paths) and
\*   runs, the preloadLevel calls whose images have not all settled; a run is
\*   [level, pending, loaded, rejected]: its level, the paths it still waits
\*   for, its `loaded` counter, and whether its Promise.all has rejected.
\* ------------------------------------------------------------------------
\* imagesToLoad of a level: baseImage, completeImage and the option images,
\* all distinct and distinct from those of the other levels
LevelImages(level) == { << level, i >> : i \in 1..NumImages }

\* Math.round((loaded / total) * 100)
Percent(loaded, total) == (200 * loaded + total) \div (2 * total)

\* preloadLevel up to the first macrotask: isReady and progress are reset,
\* cached paths resolve at once (each counts and sets progress), the others
\* are requested; with everything cached Promise.all resolves at once.
preloadLevel(p) ==
    LET imagesToLoad == LevelImages(p.levelIndex)
        total   == Cardinality(imagesToLoad)
        cached  == imagesToLoad \cap p.cacheRef
        loaded  == Cardinality(cached)
        pending == imagesToLoad \ cached
    IN  [ p EXCEPT
            !.isReady  = (pending = {}),
            !.progress = IF loaded > 0 THEN Percent(loaded, total) ELSE 0,
            !.runs     = IF pending = {} THEN @
                         ELSE Append(@, [ level |-> p.levelIndex, pending |-> pending,
                                          loaded |-> loaded, rejected |-> FALSE ]) ]

\* The render with a new levelIndex and its effects: the first effect
\* records the level and calls preloadLevel, the second sets isReady false;
\* when that turned isReady from true to false the first effect runs again
\* (isReady is one of its dependencies) and calls preloadLevel once more.
renderLevel(p, newIndex) ==
    LET p1 == preloadLevel([ p EXCEPT !.levelIndex = newIndex,
                                      !.previousLevelRef = newIndex ])
    IN  IF p.isReady /\ ~p1.isReady THEN preloadLevel(p1) ELSE p1

RemoveAt(seq, i) == SubSeq(seq, 1, i - 1) \o SubSeq(seq, i + 1, Len(seq))

\* run i with src settled: dropped once nothing is pending
SettleIn(runs, i, run) ==
    IF run.pending = {} THEN RemoveAt(runs, i) ELSE [ runs EXCEPT ![i] = run ]

\* img.onload of src in run i: the image is cached, loaded++ and setProgress;
\* when it was the last of a run that has not rejected, setIsReady(true)
imageLoaded(p, i, src) ==
    LET r   == p.runs[i]
        run == [ r EXCEPT !.pending = @ \ {src}, !.loaded = @ + 1 ]
    IN  [ p EXCEPT
            !.cacheRef = @ \cup {src},
            !.progress = Percent(run.loaded, NumImages),
            !.isReady  = IF run.pending = {} /\ ~run.rejected THEN TRUE ELSE @,
            !.runs     = SettleIn(@, i, run) ]

\* imageFailed whose catch block leaves isReady alone
imageFailed_NoReady(p, i, src) ==
    LET r   == p.runs[i]
        run == [ r EXCEPT !.pending = @ \ {src}, !.rejected = TRUE ]
    IN  [ p EXCEPT !.runs = SettleIn(@, i, run) ]

\* img.onerror of src in run i: the first rejection of a run rejects its
\* Promise.all and the catch block calls setIsReady(true)
imageFailed(p, i, src) ==
    LET r   == p.runs[i]
        run == [ r EXCEPT !.pending = @ \ {src}, !.rejected = TRUE ]
    IN  [ p EXCEPT
            !.isReady = IF ~r.rejected THEN TRUE ELSE @,
            !.runs    = SettleIn(@, i, run) ]

\* the hook after the first render and its effects (the initial load)
PreloaderMount ==
    preloadLevel([ levelIndex |-> 0, previousLevelRef |-> 0, isReady |-> FALSE,
                   progress |-> 0, cacheRef |-> {}, runs |-> <<>> ])

\* ------------------------------------------------------------------------
\* State
\* ------------------------------------------------------------------------
VARIABLES
    preloader,          \* useAssetPreloader: the hook's state
    bgm,                \* AudioManager: background music (see BgmNew)
    persistedState,     \* useGameState: persistedState
    storage,            \* localStorage[STORAGE_KEY]: <<>> or <<text>>
    storageAvailable,   \* environment: FALSE when every localStorage access throws
    am,                 \* the AudioManager singleton
    audioInitialized,   \* useGameState: audioInitialized.current
    audioSupported,     \* environment: does `new AudioContext()` succeed
    sessionScore, lives, attempts, isLevelComplete,
    selectedMouth, isShaking, gameOver,            \* useGameState session state
    gameState, selectedLevelIndex, showAd, isTransitioning,   \* App state
    shakeTimers,        \* pending 400 ms callbacks of handleMouthSelect
    celebrationTimers,  \* pending 200 ms callbacks of handleMouthSelect
    advanceTimers,      \* pending 3000 ms callbacks of handleLevelWon (closures)
    transitionTimers,   \* pending 300 ms / 500 ms callbacks of App (closures)
    call                \* the last handler called and what it returned

storeVars   == << persistedState, storage, storageAvailable >>
audioVars   == << am, audioInitialized, audioSupported >>
sessionVars == << sessionScore, lives, attempts, isLevelComplete,
                  selectedMouth, isShaking, gameOver >>
appVars     == << gameState, selectedLevelIndex, showAd, isTransitioning >>
timerVars   == << shakeTimers, celebrationTimers, advanceTimers, transitionTimers >>
vars == << storeVars, audioVars, sessionVars, appVars, timerVars, call, preloader, bgm >>

NoMouth == "null"     \* selectedMouth: null
PlayerIds == 1..NumPlayerIds

\* the persist effect: localStorage.setItem(STORAGE_KEY, JSON.stringify(persistedState))
Persist(ps) == << JSONStringify(ps) >>

\* a call record: the handler, its arguments, what it returned, and whether
\* the call before it was the same handler with the same arguments
Called(op, args, ret) ==
    [ op |-> op, args |-> args, ret |-> ret,
      again |-> (call.op = op /\ call.args = args) ]

\* State right after the first render of App on a browser without a stored
\* blob: loadPersistedState ran, the persist and audio-sync effects ran.
InitOn(supportedSet, availableSet) ==
    /\ \E id \in PlayerIds : persistedState = loadPersistedState(<<>>, id)
    /\ storageAvailable \in availableSet
    /\ storage = IF storageAvailable THEN Persist(persistedState) ELSE <<>>
    /\ audioSupported \in supportedSet
    /\ am = SyncAudio(AudioManagerNew, persistedState)
    /\ audioInitialized = FALSE
    /\ sessionScore = 0
    /\ lives = INITIAL_LIVES
    /\ attempts = 0
    /\ isLevelComplete = FALSE
    /\ selectedMouth = NoMouth
    /\ isShaking = FALSE
    /\ gameOver = FALSE
    /\ gameState = "MENU"
    /\ selectedLevelIndex = 0
    /\ showAd = FALSE
    /\ isTransitioning = FALSE
    /\ shakeTimers = 0
    /\ celebrationTimers = 0
    /\ advanceTimers = <<>>
    /\ transitionTimers = <<>>
    /\ call = [ op |-> "mount", args |-> <<>>, ret |-> "undefined", again |-> FALSE ]
    /\ preloader = PreloaderMount
    /\ bgm = BgmNew

InitWith(supportedSet) == InitOn(supportedSet, {TRUE})

Init == InitWith({TRUE})

\* ------------------------------------------------------------------------
\* Store operations of useGameState: the updaters handed to setPersistedState
\* ------------------------------------------------------------------------

\* Variants of completeLevelUpdater with one slip each
completeLevelUpdater_UnlockPastEnd(prev, levelId, levelScore) ==
    LET newCompleted == IF Includes(prev.completedLevels, levelId)
                        THEN prev.completedLevels
                        ELSE Append(prev.completedLevels, levelId)
        nextLevel == levelId + 1
        newUnlocked == IF ~Includes(prev.unlockedLevels, nextLevel)
                       THEN Append(prev.unlockedLevels, nextLevel)
                       ELSE prev.unlockedLevels
        newBestScores == Spread(prev.bestScores,
                                KeyStr(levelId) :> Max(GetOr0(prev.bestScores, KeyStr(levelId)),
                                                       levelScore))
        newTotalScore == SumValues(newBestScores)
        newHighScore == Max(prev.highScore, newTotalScore)
    IN  Spread(prev, [ completedLevels |-> newCompleted,
                       unlockedLevels |-> newUnlocked,
                       bestScores |-> newBestScores,
                       totalScore |-> newTotalScore,
                       highScore |-> newHighScore ])

completeLevelUpdater_LastScore(prev, levelId, levelScore) ==
    LET newCompleted == IF Includes(prev.completedLevels, levelId)
                        THEN prev.completedLevels
                        ELSE Append(prev.completedLevels, levelId)
        nextLevel == levelId + 1
        newUnlocked == IF nextLevel <= NumLevels /\ ~Includes(prev.unlockedLevels, nextLevel)
                       THEN Append(prev.unlockedLevels, nextLevel)
                       ELSE prev.unlockedLevels
        newBestScores == Spread(prev.bestScores, KeyStr(levelId) :> levelScore)
        newTotalScore == SumValues(newBestScores)
        newHighScore == Max(prev.highScore, newTotalScore)
    IN  Spread(prev, [ completedLevels |-> newCompleted,
                       unlockedLevels |-> newUnlocked,
                       bestScores |-> newBestScores,
                       totalScore |-> newTotalScore,
                       highScore |-> newHighScore ])

completeLevelUpdater_AlwaysAppend(prev, levelId, levelScore) ==
    LET newCompleted == Append(prev.completedLevels, levelId)
        nextLevel == levelId + 1
        newUnlocked == IF nextLevel <= NumLevels /\ ~Includes(prev.unlockedLevels, nextLevel)
                       THEN Append(prev.unlockedLevels, nextLevel)
                       ELSE prev.unlockedLevels
        newBestScores == Spread(prev.bestScores,
                                KeyStr(levelId) :> Max(GetOr0(prev.bestScores, KeyStr(levelId)),
                                                       levelScore))
        newTotalScore == SumValues(newBestScores)
        newHighScore == Max(prev.highScore, newTotalScore)
    IN  Spread(prev, [ completedLevels |-> newCompleted,
                       unlockedLevels |-> newUnlocked,
                       bestScores |-> newBestScores,
                       totalScore |-> newTotalScore,
                       highScore |-> newHighScore ])

completeLevelUpdater_StaleHigh(prev, levelId, levelScore) ==
    LET newCompleted == IF Includes(prev.completedLevels, levelId)
                        THEN prev.completedLevels
                        ELSE Append(prev.completedLevels, levelId)
        nextLevel == levelId + 1
        newUnlocked == IF nextLevel <= NumLevels /\ ~Includes(prev.unlockedLevels, nextLevel)
                       THEN Append(prev.unlockedLevels, nextLevel)
                       ELSE prev.unlockedLevels
        newBestScores == Spread(prev.bestScores,
                                KeyStr(levelId) :> Max(GetOr0(prev.bestScores, KeyStr(levelId)),
                                                       levelScore))
        newTotalScore == SumValues(newBestScores)
    IN  Spread(prev, [ completedLevels |-> newCompleted,
                       unlockedLevels |-> newUnlocked,
                       bestScores |-> newBestScores,
                       totalScore |-> newTotalScore ])

\* completeLevel: the updater
completeLevelUpdater(prev, levelId, levelScore) ==
    LET newCompleted == IF Includes(prev.completedLevels, levelId)
                        THEN prev.completedLevels
                        ELSE Append(prev.completedLevels, levelId)
        nextLevel == levelId + 1
        newUnlocked == IF nextLevel <= NumLevels /\ ~Includes(prev.unlockedLevels, nextLevel)
                       THEN Append(prev.unlockedLevels, nextLevel)
                       ELSE prev.unlockedLevels
        newBestScores == Spread(prev.bestScores,
                                KeyStr(levelId) :> Max(GetOr0(prev.bestScores, KeyStr(levelId)),
                                                       levelScore))
        newTotalScore == SumValues(newBestScores)
        newHighScore == Max(prev.highScore, newTotalScore)
    IN  Spread(prev, [ completedLevels |-> newCompleted,
                       unlockedLevels |-> newUnlocked,
                       bestScores |-> newBestScores,
                       totalScore |-> newTotalScore,
                       highScore |-> newHighScore ])

\* Variants of resetProgressUpdater with one slip each
resetProgressUpdater_KeepsTotal(prev) ==
    Spread(prev, [ unlockedLevels |-> <<1>>,
                   completedLevels |-> <<>>,
                   bestScores |-> EmptyObj,
                   highScore |-> 0 ])

resetProgressUpdater_ResetsSettings(prev) ==
    Spread(prev, [ unlockedLevels |-> <<1>>,
                   completedLevels |-> <<>>,
                   bestScores |-> EmptyObj,
                   highScore |-> 0,
                   totalScore |-> 0,
                   settings |-> DEFAULT_SETTINGS ])

resetProgressUpdater_KeepsBest(prev) ==
    Spread(prev, [ unlockedLevels |-> <<1>>,
                   completedLevels |-> <<>>,
                   highScore |-> 0,
                   totalScore |-> 0 ])

resetProgressUpdater_KeepsUnlocked(prev) ==
    Spread(prev, [ completedLevels |-> <<>>,
                   bestScores |-> EmptyObj,
                   highScore |-> 0,
                   totalScore |-> 0 ])

\* handleResetProgress: the updater
resetProgressUpdater(prev) ==
    Spread(prev, [ unlockedLevels |-> <<1>>,
                   completedLevels |-> <<>>,
                   bestScores |-> EmptyObj,
                   highScore |-> 0,
                   totalScore |-> 0 ])

\* name.trim(): names are sequences of characters, " " the only whitespace
RECURSIVE TrimStart(_)
TrimStart(name) ==
    IF name # <<>> /\ Head(name) = " " THEN TrimStart(Tail(name)) ELSE name

RECURSIVE TrimEnd(_)
TrimEnd(name) ==
    IF name # <<>> /\ name[Len(name)] = " "
    THEN TrimEnd(SubSeq(name, 1, Len(name) - 1)) ELSE name

Trim(name) == TrimEnd(TrimStart(name))

\* setPlayerName: cleanName
CleanName(name) == SubSeq(Trim(name), 1, Min(MaxNameLen, Len(Trim(name))))

setPlayerNameUpdater(prev, name) == Spread(prev, [ playerName |-> CleanName(name) ])

\* the assignment loop of updateSetting: walk keys[0..n-2], assign keys[n-1]
RECURSIVE SetIn(_, _, _)
SetIn(obj, keys, value) ==
    IF Len(keys) = 1
    THEN Spread(obj, Head(keys) :> value)
    ELSE Spread(obj, Head(keys) :> SetIn(obj[Head(keys)], Tail(keys), value))

\* updateSetting: the updater.  keys is path.split('.').  It returns the new
\* state object (updated) and what the object it was given holds afterwards
\* (prevAfter): the assignment is made on a deep copy, so prev is untouched.
updateSettingUpdater(prev, keys, value) ==
    LET copy == JSONParse(JSONStringify(prev))
    IN  [ updated   |-> Spread(copy, [ settings |-> SetIn(copy.settings, keys, value) ]),
          prevAfter |-> prev ]

\* updateSettings: the updater
updateSettingsUpdater(prev, updates) ==
    Spread(prev, [ settings |-> Spread(prev.settings, updates) ])

\* toggleMute: the updater
toggleMuteUpdater(prev, isMuted) ==
    Spread(prev, [ settings |->
        Spread(prev.settings, [ audio |->
            Spread(prev.settings.audio, [ isMusicMuted |-> isMuted,
                                          isSfxMuted |-> isMuted ]) ]) ])

\* derived flag isMuted of useGameState
isMuted == persistedState.settings.audio.isMusicMuted /\ persistedState.settings.audio.isSfxMuted

\* ------------------------------------------------------------------------
\* Store actions: handler, then the effects React runs after the render
\* (persist; audio sync when settings.audio is a new object)
\* ------------------------------------------------------------------------
\* setPersistedState and the persist effect, whose setItem may throw into
\* its catch block
SetPersisted(ps) ==
    /\ persistedState' = ps
    /\ storage' = IF storageAvailable THEN Persist(ps) ELSE storage
    /\ UNCHANGED storageAvailable

\* handleResetLevel
ResetSession ==
    /\ sessionScore' = 0
    /\ lives' = INITIAL_LIVES
    /\ attempts' = 0
    /\ isLevelComplete' = FALSE
    /\ selectedMouth' = NoMouth
    /\ isShaking' = FALSE
    /\ gameOver' = FALSE

completeLevel(levelId, levelScore) ==
    /\ UNCHANGED << preloader, bgm >>
    /\ SetPersisted(completeLevelUpdater(persistedState, levelId, levelScore))
    /\ call' = Called("completeLevel", << levelId, levelScore >>, "undefined")
    /\ UNCHANGED << audioVars, sessionVars, appVars, timerVars >>

handleResetProgress ==
    /\ UNCHANGED << preloader, bgm >>
    /\ SetPersisted(resetProgressUpdater(persistedState))
    /\ ResetSession
    /\ call' = Called("handleResetProgress", <<>>, TRUE)
    /\ UNCHANGED << audioVars, appVars, timerVars >>

\* localStorage.removeItem is not inside a try block: when it throws, the
\* handler ends there and the exception reaches the caller.
handleHardReset ==
    /\ UNCHANGED << preloader, bgm >>
    /\ IF storageAvailable
       THEN \E id \in PlayerIds :
              LET ps == Spread(DEFAULT_STATE, [ playerId |-> id ])
              IN  /\ SetPersisted(ps)       \* removeItem, then the persist effect
                  /\ am' = SyncAudio(am, ps)
                  /\ ResetSession
                  /\ call' = Called("handleHardReset", <<>>, "undefined")
                  /\ UNCHANGED << audioInitialized, audioSupported, appVars, timerVars >>
       ELSE /\ call' = Called("handleHardReset", <<>>, "throws")
            /\ UNCHANGED << storeVars, audioVars, sessionVars, appVars, timerVars >>

setPlayerName(name) ==
    /\ UNCHANGED << preloader, bgm >>
    /\ SetPersisted(setPlayerNameUpdater(persistedState, name))
    /\ call' = Called("setPlayerName", << name >>, "undefined")
    /\ UNCHANGED << audioVars, sessionVars, appVars, timerVars >>

updateSetting(keys, value) ==
    /\ UNCHANGED << preloader, bgm >>
    /\ LET ps == updateSettingUpdater(persistedState, keys, value).updated
           a1 == IF Head(keys) = "audio" /\ keys[2] = "musicVolume" THEN setMusicVolume(am, value)
                 ELSE IF Head(keys) = "audio" /\ keys[2] = "sfxVolume" THEN setSfxVolume(am, value)
                 ELSE am
       IN  /\ SetPersisted(ps)
           /\ am' = SyncAudio(a1, ps)
           /\ call' = Called("updateSetting", << keys, value >>, "undefined")
           /\ UNCHANGED << audioInitialized, audioSupported, sessionVars, appVars, timerVars >>

updateSettings(updates) ==
    /\ UNCHANGED << preloader, bgm >>
    /\ LET ps == updateSettingsUpdater(persistedState, updates)
       IN  /\ SetPersisted(ps)
           /\ am' = IF "audio" \in DOMAIN updates THEN SyncAudio(am, ps) ELSE am
           /\ call' = Called("updateSettings", << updates >>, "undefined")
           /\ UNCHANGED << audioInitialized, audioSupported, sessionVars, appVars, timerVars >>

\* initAudio of useGameState, as a function of (am, audioInitialized)
InitAudioOn(a, done) == IF done THEN a ELSE AudioInit(a, audioSupported)

toggleMute ==
    /\ UNCHANGED << preloader, bgm >>
    /\ LET t  == AudioToggleMute(InitAudioOn(am, audioInitialized))
           ps == toggleMuteUpdater(persistedState, t.ret)
       IN  /\ SetPersisted(ps)
           /\ am' = SyncAudio(t.am, ps)
           /\ audioInitialized' = TRUE
           /\ call' = Called("toggleMute", <<>>, t.ret)
           /\ UNCHANGED << audioSupported, sessionVars, appVars, timerVars >>

\* Page reload: every module is evaluated again and App mounts from storage.
Reload ==
    \E id \in PlayerIds :
        LET ps == loadPersistedState(IF storageAvailable THEN storage ELSE <<>>, id)
        IN  /\ SetPersisted(ps)
            /\ am' = SyncAudio(AudioManagerNew, ps)
            /\ audioInitialized' = FALSE
            /\ ResetSession
            /\ gameState' = "MENU"
            /\ selectedLevelIndex' = 0
            /\ showAd' = FALSE
            /\ isTransitioning' = FALSE
            /\ shakeTimers' = 0
            /\ celebrationTimers' = 0
            /\ advanceTimers' = <<>>
            /\ transitionTimers' = <<>>
            /\ call' = Called("mount", <<>>, "undefined")
            /\ preloader' = PreloaderMount
            /\ bgm' = BgmNew
            /\ UNCHANGED audioSupported

\* ------------------------------------------------------------------------
\* Inputs
\* ------------------------------------------------------------------------
Scores == {0, 40, 70, 100}

SettingsLeafPaths ==
    { <<"audio", "musicVolume">>, <<"audio", "sfxVolume">>,
      <<"audio", "isMusicMuted">>, <<"audio", "isSfxMuted">>,
      <<"haptics", "enabled">>, <<"haptics", "intensity">>,
      <<"accessibility", "screenReaderMode">>, <<"accessibility", "highContrast">>,
      <<"accessibility", "reduceMotion">> }

\* the values the settings screen passes for a path
SettingValues(keys) ==
    IF keys[2] \in {"musicVolume", "sfxVolume"} THEN {0, 42, 100}
    ELSE IF keys[2] = "intensity" THEN {0, 3, 10}
    ELSE BOOLEAN

\* partial settings objects handed to updateSettings
SettingsUpdates ==
    << [ haptics |-> [ enabled |-> FALSE, intensity |-> 3 ] ],
       [ audio |-> [ musicVolume |-> 55, sfxVolume |-> 80,
                     isMusicMuted |-> TRUE, isSfxMuted |-> FALSE ] ] >>

\* strings handed to setPlayerName: every string of at most MaxShortName
\* characters over a letter and a blank, and strings around the 20 character
\* limit
MaxShortName == 3

Rep(c, n) == [ i \in 1..n |-> c ]

ShortNames == UNION { [ 1..n -> {"a", " "} ] : n \in 0..MaxShortName }

LongNames ==
    { Rep("a", MaxNameLen),
      Rep("a", MaxNameLen + 1),
      << " " >> \o Rep("a", MaxNameLen) \o << " " >>,
      Rep("a", MaxNameLen - 1) \o << " ", "b" >>,
      << " " >> \o Rep("a", MaxNameLen - 2) \o << " ", " ", "b" >> }

NameInputs == ShortNames \cup LongNames

\* ------------------------------------------------------------------------
\* SpecStore: the store driven through the API of the hook
\* ------------------------------------------------------------------------
StorePaths == { <<"audio", "musicVolume">> }

StoreValues(keys) == IF keys[2] = "musicVolume" THEN {42} ELSE {FALSE}

\* isLevelUnlocked of useGameState
isLevelUnlocked(levelId) == Includes(persistedState.unlockedLevels, levelId)

StoreScores == {40, 100}

\* completeLevel is called for a level the player could enter (LevelSelect
\* and the auto-advance only open unlocked levels)
NextStore ==
    \/ \E L \in LevelIds, s \in StoreScores : isLevelUnlocked(L) /\ completeLevel(L, s)
    \/ handleResetProgress
    \/ handleHardReset
    \/ setPlayerName(<<" ", "a", "b", " ">>)
    \/ \E keys \in StorePaths : \E v \in StoreValues(keys) : updateSetting(keys, v)
    \/ updateSettings(SettingsUpdates[1])
    \/ toggleMute
    \/ Reload

SpecStore == Init /\ [][NextStore]_vars

\* the same operations on a browser whose localStorage throws on every access
InitNoStorage == InitOn({TRUE}, {FALSE})

SpecNoStorage == InitNoStorage /\ [][NextStore]_vars

\* ------------------------------------------------------------------------
\* Loading blobs this version did not write: an older version of the page,
\* or another tab, leaves a blob under STORAGE_KEY and the page is mounted
\* on it.
\* ------------------------------------------------------------------------
Restrict(f, keys) == [ k \in keys \cap DOMAIN f |-> f[k] ]

StoredPlayerId == NumPlayerIds + 5    \* an id no generatePlayerId() call here gives

\* a blob with every known field off its default, a field and a settings
\* group the defaults do not have, and an unknown leaf in the audio group
FullBlob ==
    [ version |-> 2,
      playerName |-> << "A" >>,
      playerId |-> StoredPlayerId,
      unlockedLevels |-> <<1, 2>>,
      completedLevels |-> <<1>>,
      bestScores |-> [ k \in {"1"} |-> 70 ],
      highScore |-> 70,
      totalScore |-> 70,
      legacy |-> 1,
      settings |->
        [ audio |-> [ musicVolume |-> 10, sfxVolume |-> 20,
                      isMusicMuted |-> TRUE, isSfxMuted |-> TRUE, extra |-> 1 ],
          haptics |-> [ enabled |-> FALSE, intensity |-> 3 ],
          accessibility |-> [ screenReaderMode |-> TRUE, highContrast |-> TRUE,
                              reduceMotion |-> TRUE ],
          beta |-> [ flag |-> TRUE ] ] ]

TopKeySets ==
    { {}, {"playerId"}, {"settings"}, {"settings", "legacy", "totalScore"},
      DOMAIN FullBlob }

GroupKeySets == SUBSET {"audio", "haptics", "beta"}

AudioKeySets == SUBSET {"musicVolume", "isSfxMuted", "extra"}

BlobOf(top, groups, leaves) ==
    LET b == Restrict(FullBlob, top)
    IN  IF "settings" \in top
        THEN LET g == Restrict(FullBlob.settings, groups)
             IN  Spread(b, [ settings |->
                     IF "audio" \in groups
                     THEN Spread(g, [ audio |-> Restrict(FullBlob.settings.audio, leaves) ])
                     ELSE g ])
        ELSE b

\* a text that is not JSON
UnparsableText == [ objs |-> {}, leaves |-> <<>> ]

StoredTexts ==
    { UnparsableText } \cup
    { JSONStringify(BlobOf(top, groups, leaves)) :
        top \in TopKeySets, groups \in GroupKeySets, leaves \in AudioKeySets }

ExternalWrite ==
    /\ storageAvailable
    /\ \E text \in StoredTexts : storage' = << text >>
    /\ call' = Called("externalWrite", <<>>, "undefined")
    /\ UNCHANGED << persistedState, storageAvailable, audioVars, sessionVars,
                    appVars, timerVars, preloader, bgm >>

ExternalRemove ==
    /\ storageAvailable
    /\ storage' = <<>>
    /\ call' = Called("externalRemove", <<>>, "undefined")
    /\ UNCHANGED << persistedState, storageAvailable, audioVars, sessionVars,
                    appVars, timerVars, preloader, bgm >>

NextLoad ==
    \/ ExternalWrite
    \/ ExternalRemove
    \/ Reload

SpecLoad == Init /\ [][NextLoad]_vars

\* ------------------------------------------------------------------------
\* Game session: handleMouthSelect and its deferred callbacks
\* ------------------------------------------------------------------------

\* getPointsForAttempt, with a different fallback
getPointsForAttempt_ZeroFallback(attemptNumber) ==
    IF attemptNumber \in DOMAIN POINTS_BY_ATTEMPT
    THEN POINTS_BY_ATTEMPT[attemptNumber] ELSE 0

\* POINTS_BY_ATTEMPT[attemptNumber] || 40
getPointsForAttempt(attemptNumber) ==
    IF attemptNumber \in DOMAIN POINTS_BY_ATTEMPT /\ POINTS_BY_ATTEMPT[attemptNumber] # 0
    THEN POINTS_BY_ATTEMPT[attemptNumber] ELSE 40

\* AudioManager.play*(): ensureReady() calls init() while not initialized
PlaySfx(a) == AudioInit(a, audioSupported)

\* livesUpdater with the game-over test one life late
livesUpdater_LateGameOver(prev) ==
    LET newLives == prev - 1
    IN  [ lives |-> newLives, over |-> newLives < 0 ]

\* setLives(prev => ...) of the wrong branch: the new lives and whether the
\* updater called setGameOver(true)
livesUpdater(prev) ==
    LET newLives == prev - 1
    IN  [ lives |-> newLives, over |-> newLives <= 0 ]

\* handleMouthSelect whose guard forgets isLevelComplete
handleMouthSelect_NoCompleteGuard(mouthId) ==
    /\ UNCHANGED << preloader, bgm >>
    /\ call' = Called("handleMouthSelect", << mouthId >>, "undefined")
    /\ IF gameOver
       THEN UNCHANGED << storeVars, audioVars, sessionVars, appVars, timerVars >>
       ELSE LET newAttempts == attempts + 1
                a0 == InitAudioOn(am, audioInitialized)
            IN  /\ audioInitialized' = TRUE
                /\ selectedMouth' = mouthId
                /\ attempts' = newAttempts
                /\ IF mouthId = CorrectMouth(selectedLevelIndex)
                   THEN /\ celebrationTimers < MaxTimers
                        /\ sessionScore' = sessionScore + getPointsForAttempt(newAttempts)
                        /\ isLevelComplete' = TRUE
                        /\ am' = PlaySfx(a0)
                        /\ celebrationTimers' = celebrationTimers + 1
                        /\ UNCHANGED << lives, isShaking, gameOver, shakeTimers >>
                   ELSE /\ shakeTimers < MaxTimers
                        /\ isShaking' = TRUE
                        /\ lives' = livesUpdater(lives).lives
                        /\ gameOver' = (gameOver \/ livesUpdater(lives).over)
                        /\ am' = PlaySfx(a0)
                        /\ shakeTimers' = shakeTimers + 1
                        /\ UNCHANGED << sessionScore, isLevelComplete, celebrationTimers >>
                /\ UNCHANGED << storeVars, audioSupported, appVars,
                                advanceTimers, transitionTimers >>

\* handleMouthSelect whose guard forgets gameOver
handleMouthSelect_NoGameOverGuard(mouthId) ==
    /\ UNCHANGED << preloader, bgm >>
    /\ call' = Called("handleMouthSelect", << mouthId >>, "undefined")
    /\ IF isLevelComplete
       THEN UNCHANGED << storeVars, audioVars, sessionVars, appVars, timerVars >>
       ELSE LET newAttempts == attempts + 1
                a0 == InitAudioOn(am, audioInitialized)
            IN  /\ audioInitialized' = TRUE
                /\ selectedMouth' = mouthId
                /\ attempts' = newAttempts
                /\ IF mouthId = CorrectMouth(selectedLevelIndex)
                   THEN /\ celebrationTimers < MaxTimers
                        /\ sessionScore' = sessionScore + getPointsForAttempt(newAttempts)
                        /\ isLevelComplete' = TRUE
                        /\ am' = PlaySfx(a0)
                        /\ celebrationTimers' = celebrationTimers + 1
                        /\ UNCHANGED << lives, isShaking, gameOver, shakeTimers >>
                   ELSE /\ shakeTimers < MaxTimers
                        /\ isShaking' = TRUE
                        /\ lives' = livesUpdater(lives).lives
                        /\ gameOver' = (gameOver \/ livesUpdater(lives).over)
                        /\ am' = PlaySfx(a0)
                        /\ shakeTimers' = shakeTimers + 1
                        /\ UNCHANGED << sessionScore, isLevelComplete, celebrationTimers >>
                /\ UNCHANGED << storeVars, audioSupported, appVars,
                                advanceTimers, transitionTimers >>

handleMouthSelect(mouthId) ==
    /\ UNCHANGED << preloader, bgm >>
    /\ call' = Called("handleMouthSelect", << mouthId >>, "undefined")
    /\ IF isLevelComplete \/ gameOver
       THEN UNCHANGED << storeVars, audioVars, sessionVars, appVars, timerVars >>
       ELSE LET newAttempts == attempts + 1
                a0 == InitAudioOn(am, audioInitialized)
            IN  /\ audioInitialized' = TRUE
                /\ selectedMouth' = mouthId
                /\ attempts' = newAttempts
                /\ IF mouthId = CorrectMouth(selectedLevelIndex)
                   THEN /\ celebrationTimers < MaxTimers
                        /\ sessionScore' = sessionScore + getPointsForAttempt(newAttempts)
                        /\ isLevelComplete' = TRUE
                        /\ am' = PlaySfx(a0)
                        /\ celebrationTimers' = celebrationTimers + 1
                        /\ UNCHANGED << lives, isShaking, gameOver, shakeTimers >>
                   ELSE /\ shakeTimers < MaxTimers
                        /\ isShaking' = TRUE
                        /\ lives' = livesUpdater(lives).lives
                        /\ gameOver' = (gameOver \/ livesUpdater(lives).over)
                        /\ am' = PlaySfx(a0)
                        /\ shakeTimers' = shakeTimers + 1
                        /\ UNCHANGED << sessionScore, isLevelComplete, celebrationTimers >>
                /\ UNCHANGED << storeVars, audioSupported, appVars,
                                advanceTimers, transitionTimers >>

\* the 400 ms callback of the wrong branch
ShakeTimeout ==
    /\ UNCHANGED << preloader, bgm >>
    /\ shakeTimers > 0
    /\ shakeTimers' = shakeTimers - 1
    /\ isShaking' = FALSE
    /\ selectedMouth' = NoMouth
    /\ UNCHANGED << storeVars, audioVars, sessionScore, lives, attempts, isLevelComplete,
                    gameOver, appVars, celebrationTimers, advanceTimers, transitionTimers,
                    call >>

\* the 200 ms callback of the correct branch: confetti and the fanfare
CelebrationTimeout ==
    /\ UNCHANGED << preloader, bgm >>
    /\ celebrationTimers > 0
    /\ celebrationTimers' = celebrationTimers - 1
    /\ am' = PlaySfx(am)
    /\ UNCHANGED << storeVars, audioInitialized, audioSupported, sessionVars, appVars,
                    shakeTimers, advanceTimers, transitionTimers, call >>

\* handleResetLevel without setAttempts(0)
handleResetLevel_KeepsAttempts ==
    /\ UNCHANGED << preloader, bgm >>
    /\ sessionScore' = 0
    /\ lives' = INITIAL_LIVES
    /\ isLevelComplete' = FALSE
    /\ selectedMouth' = NoMouth
    /\ isShaking' = FALSE
    /\ gameOver' = FALSE
    /\ UNCHANGED attempts
    /\ call' = Called("handleResetLevel", <<>>, "undefined")
    /\ UNCHANGED << storeVars, audioVars, appVars, timerVars >>

handleResetLevel ==
    /\ UNCHANGED << preloader, bgm >>
    /\ ResetSession
    /\ call' = Called("handleResetLevel", <<>>, "undefined")
    /\ UNCHANGED << storeVars, audioVars, appVars, timerVars >>

\* the public getPointsForAttempt of the hook
callGetPointsForAttempt(attemptNumber) ==
    /\ UNCHANGED << preloader, bgm >>
    /\ call' = Called("getPointsForAttempt", << attemptNumber >>,
                      getPointsForAttempt(attemptNumber))
    /\ UNCHANGED << storeVars, audioVars, sessionVars, appVars, timerVars >>

\* ------------------------------------------------------------------------
\* App: navigation handlers and their deferred callbacks
\* ------------------------------------------------------------------------
handleStartGame ==
    /\ UNCHANGED << preloader, bgm >>
    /\ am' = InitAudioOn(am, audioInitialized)
    /\ audioInitialized' = TRUE
    /\ gameState' = "LEVEL_SELECT"
    /\ call' = Called("handleStartGame", <<>>, "undefined")
    /\ UNCHANGED << storeVars, audioSupported, sessionVars, selectedLevelIndex, showAd,
                    isTransitioning, timerVars >>

handleSelectLevel(levelNumber) ==
    /\ UNCHANGED << preloader, bgm >>
    /\ Len(transitionTimers) < MaxTimers
    /\ isTransitioning' = TRUE
    /\ selectedLevelIndex' = levelNumber - 1
    /\ ResetSession
    /\ transitionTimers' = Append(transitionTimers, "toPlaying")
    /\ call' = Called("handleSelectLevel", << levelNumber >>, "undefined")
    /\ UNCHANGED << storeVars, audioVars, gameState, showAd,
                    shakeTimers, celebrationTimers, advanceTimers >>

\* the 300 ms callback of handleSelectLevel ("toPlaying") and the 500 ms
\* callback of the auto-advance ("endTransition")
TransitionTimeout ==
    /\ UNCHANGED << preloader, bgm >>
    /\ transitionTimers # <<>>
    /\ \E i \in 1..Len(transitionTimers) :
        /\ transitionTimers' = [ j \in 1..(Len(transitionTimers) - 1) |->
                                   IF j < i THEN transitionTimers[j] ELSE transitionTimers[j + 1] ]
        /\ gameState' = IF transitionTimers[i] = "toPlaying" THEN "PLAYING" ELSE gameState
    /\ isTransitioning' = FALSE
    /\ UNCHANGED << storeVars, audioVars, sessionVars, selectedLevelIndex, showAd,
                    shakeTimers, celebrationTimers, advanceTimers, call >>

handleBackToMenu ==
    /\ UNCHANGED << preloader, bgm >>
    /\ ResetSession
    /\ gameState' = "MENU"
    /\ call' = Called("handleBackToMenu", <<>>, "undefined")
    /\ UNCHANGED << storeVars, audioVars, selectedLevelIndex, showAd, isTransitioning,
                    timerVars >>

handleBackToLevelSelect ==
    /\ UNCHANGED << preloader, bgm >>
    /\ ResetSession
    /\ gameState' = "LEVEL_SELECT"
    /\ call' = Called("handleBackToLevelSelect", <<>>, "undefined")
    /\ UNCHANGED << storeVars, audioVars, selectedLevelIndex, showAd, isTransitioning,
                    timerVars >>

\* handleLevelWon.  The callback it schedules keeps the isLevelUnlocked of the
\* render it was created in.
handleLevelWon ==
    /\ UNCHANGED << preloader, bgm >>
    /\ Len(advanceTimers) < MaxTimers
    /\ LET levelNumber == selectedLevelIndex + 1
       IN  /\ SetPersisted(completeLevelUpdater(persistedState, levelNumber, sessionScore))
           /\ advanceTimers' = Append(advanceTimers,
                                 [ levelNumber |-> levelNumber,
                                   nextUnlocked |-> isLevelUnlocked(levelNumber + 1) ])
           /\ call' = Called("handleLevelWon", << levelNumber, sessionScore >>, "undefined")
    /\ showAd' = TRUE
    /\ UNCHANGED << audioVars, sessionVars, gameState, selectedLevelIndex, isTransitioning,
                    shakeTimers, celebrationTimers, transitionTimers >>

\* the 3000 ms callback of handleLevelWon
AdvanceTimeout ==
    /\ UNCHANGED << preloader, bgm >>
    /\ advanceTimers # <<>>
    /\ LET t == Head(advanceTimers)
       IN  /\ advanceTimers' = Tail(advanceTimers)
           /\ showAd' = FALSE
           /\ ResetSession
           /\ IF t.levelNumber < NumLevels /\ t.nextUnlocked
              THEN /\ Len(transitionTimers) < MaxTimers
                   /\ isTransitioning' = TRUE
                   /\ selectedLevelIndex' = t.levelNumber
                   /\ transitionTimers' = Append(transitionTimers, "endTransition")
                   /\ UNCHANGED gameState
              ELSE /\ gameState' = "LEVEL_SELECT"
                   /\ UNCHANGED << selectedLevelIndex, isTransitioning, transitionTimers >>
    /\ UNCHANGED << storeVars, audioVars, shakeTimers, celebrationTimers, call >>

\* a wrong option of the level: the first option that is not the correct one
WrongMouth(levelIndex) == IF CorrectMouth(levelIndex) = "m1" THEN "m2" ELSE "m1"

\* What the rendered screen lets the player do:
\*   MainMenu shows Start; LevelSelect opens unlocked levels and goes back;
\*   the playing screen shows the header (home), the option grid, whose
\*   buttons are disabled while isLevelComplete or a mouth is selected, the
\*   win modal while isLevelComplete (Next Level, Replay) and the game-over
\*   overlay while gameOver (Try Again, Level Select), which covers the grid;
\*   the settings button, hidden while playing or in transition, leads to
\*   Reset Progress; the ad overlay covers the whole screen while showAd.
\* MaxWonLevel bounds the levels on which the player presses Next Level.
Next ==
    \/ gameState = "MENU" /\ ~showAd /\ handleStartGame
    \/ \E n \in LevelIds :
           /\ gameState = "LEVEL_SELECT" /\ ~showAd
           /\ isLevelUnlocked(n)
           /\ handleSelectLevel(n)
    \/ TransitionTimeout
    \/ gameState \in {"LEVEL_SELECT", "PLAYING"} /\ ~showAd /\ handleBackToMenu
    \/ gameState = "PLAYING" /\ ~showAd /\ gameOver /\ handleBackToLevelSelect
    \/ \E m \in { CorrectMouth(selectedLevelIndex), WrongMouth(selectedLevelIndex) } :
           /\ gameState = "PLAYING" /\ ~showAd
           /\ ~isLevelComplete /\ ~gameOver /\ selectedMouth = NoMouth
           /\ handleMouthSelect(m)
    \/ ShakeTimeout
    \/ CelebrationTimeout
    \/ gameState = "PLAYING" /\ ~showAd /\ (isLevelComplete \/ gameOver) /\ handleResetLevel
    \/ /\ gameState = "PLAYING" /\ ~showAd
       /\ isLevelComplete /\ selectedLevelIndex < MaxWonLevel
       /\ handleLevelWon
    \/ AdvanceTimeout
    \/ /\ gameState \in {"MENU", "LEVEL_SELECT"} /\ ~showAd /\ ~isTransitioning
       /\ handleResetProgress

Spec == Init /\ [][Next]_vars

\* ------------------------------------------------------------------------
\* SpecSession: the session of one level driven through the API of the hook
\* ------------------------------------------------------------------------
NextSession ==
    \/ \E m \in MouthIds : handleMouthSelect(m)
    \/ ShakeTimeout
    \/ CelebrationTimeout
    \/ handleResetLevel
    \/ \E n \in 1..MaxAttempt : callGetPointsForAttempt(n)

SpecSession == Init /\ [][NextSession]_vars

\* ------------------------------------------------------------------------
\* SpecPreload: the preloader under level switches and image events
\* ------------------------------------------------------------------------
\* App renders the hook with selectedLevelIndex, which its handlers move to
\* unlocked levels only; a render with the same level runs no effect.
RenderLevel(newIndex) ==
    /\ newIndex # preloader.levelIndex
    /\ isLevelUnlocked(newIndex + 1)
    /\ Len(preloader.runs) + (IF preloader.isReady THEN 2 ELSE 1) <= MaxPreloads
    /\ preloader' = renderLevel(preloader, newIndex)
    /\ UNCHANGED bgm
    /\ call' = Called("render", << newIndex >>, "undefined")
    /\ UNCHANGED << storeVars, audioVars, sessionVars, appVars, timerVars >>

ImageLoaded ==
    \E i \in 1..Len(preloader.runs) : \E src \in preloader.runs[i].pending :
        /\ preloader' = imageLoaded(preloader, i, src)
        /\ UNCHANGED bgm
        /\ UNCHANGED << storeVars, audioVars, sessionVars, appVars, timerVars, call >>

ImageFailed ==
    \E i \in 1..Len(preloader.runs) : \E src \in preloader.runs[i].pending :
        /\ preloader' = imageFailed(preloader, i, src)
        /\ UNCHANGED bgm
        /\ UNCHANGED << storeVars, audioVars, sessionVars, appVars, timerVars, call >>

NextPreload ==
    \/ \E n \in 0..(NumLevels - 1) : RenderLevel(n)
    \/ ImageLoaded
    \/ ImageFailed
    \/ ~isLevelUnlocked(2) /\ completeLevel(1, 100)

\* the player id plays no part in the preloader
InitPreload == Init /\ persistedState.playerId = 1

SpecPreload == InitPreload /\ [][NextPreload]_vars

\* every image request settles in the end
SpecPreloadFair == SpecPreload /\ WF_vars(ImageLoaded \/ ImageFailed)

\* ------------------------------------------------------------------------
\* SpecSettings: the settings screen and a reload of the page
\* ------------------------------------------------------------------------
SettingsScreenInputs ==
    << << <<"audio", "musicVolume">>, 42 >>,
       << <<"audio", "isSfxMuted">>, TRUE >>,
       << <<"haptics", "enabled">>, FALSE >>,
       << <<"haptics", "intensity">>, 3 >>,
       << <<"accessibility", "highContrast">>, TRUE >> >>

NextSettings ==
    \/ \E i \in 1..Len(SettingsScreenInputs) :
           updateSetting(SettingsScreenInputs[i][1], SettingsScreenInputs[i][2])
    \/ setPlayerName(<<"a", "b">>)
    \/ completeLevel(1, 100)
    \/ Reload

SpecSettings == Init /\ [][NextSettings]_vars

\* ------------------------------------------------------------------------
\* SpecProfile: the player profile driven through setPlayerName
\* ------------------------------------------------------------------------
NextProfile ==
    \/ \E name \in NameInputs : setPlayerName(name)
    \/ handleResetProgress
    \/ Reload

SpecProfile == Init /\ [][NextProfile]_vars

\* ------------------------------------------------------------------------
\* SpecAudio: the sound controls of the settings screen, on browsers with and
\* without an AudioContext
\* ------------------------------------------------------------------------
\* handleTestSound of SettingsModal: AudioManager.init(); AudioManager.playClick()
handleTestSound ==
    /\ am' = PlaySfx(AudioInit(am, audioSupported))
    /\ call' = Called("handleTestSound", <<>>, "undefined")
    /\ UNCHANGED << storeVars, audioInitialized, audioSupported, sessionVars,
                    appVars, timerVars, preloader, bgm >>

AudioScreenInputs ==
    << << <<"audio", "musicVolume">>, 42 >>,
       << <<"audio", "isSfxMuted">>, TRUE >> >>

NextAudio ==
    \/ handleTestSound
    \/ \E i \in 1..Len(AudioScreenInputs) :
           updateSetting(AudioScreenInputs[i][1], AudioScreenInputs[i][2])
    \/ toggleMute
    \/ handleStartGame
    \/ Reload

InitAudio == InitWith(BOOLEAN)

SpecAudio == InitAudio /\ [][NextAudio]_vars

\* ------------------------------------------------------------------------
\* SpecCues: the tone cues of the AudioManager called directly, on browsers
\* with and without an AudioContext
\* ------------------------------------------------------------------------
Cues == { "playCorrect", "playWrong", "playLevelComplete", "playGameOver",
          "playClick", "playHover" }

\* a play* method after `await this.ensureReady()`: each of them reads
\* this.audioContext.currentTime, itself or through _playTone, before the
\* test of this.audioContext in _playToneAt.  The outcome is the TypeError
\* the returned promise rejects with, or whether oscillators were started.
toneOutcome(a) ==
    IF a.audioContext = NoContext THEN "TypeError"
    ELSE IF a.isSfxMuted \/ a.sfxVolume = 0 THEN "silent"
    ELSE "scheduled"

callPlay(cue) ==
    /\ am' = PlaySfx(am)
    /\ call' = Called(cue, <<>>, toneOutcome(am'))
    /\ UNCHANGED << storeVars, audioInitialized, audioSupported, sessionVars,
                    appVars, timerVars, preloader, bgm >>

NextCues ==
    \/ \E cue \in Cues : callPlay(cue)
    \/ updateSetting(<<"audio", "sfxVolume">>, 0)
    \/ toggleMute
    \/ Reload

SpecCues == InitAudio /\ [][NextCues]_vars

\* ------------------------------------------------------------------------
\* SpecManager: the AudioManager singleton driven through its own methods
\* ------------------------------------------------------------------------
VolumeInputs == { -1, 0, 50, 100, 101 }

\* state objects handed to restoreState: any subset of the four fields
RestoreInputs ==
    UNION { [ keys -> VolumeInputs ] : keys \in SUBSET {"musicVolume", "sfxVolume"} }
    \cup { [ isMusicMuted |-> TRUE, isSfxMuted |-> FALSE ] }

callInit ==
    /\ am' = AudioInit(am, audioSupported)
    /\ call' = Called("init", <<>>, "undefined")
    /\ UNCHANGED << storeVars, audioInitialized, audioSupported, sessionVars,
                    appVars, timerVars, preloader, bgm >>

callSetVolume(bus, volume) ==
    /\ am' = IF bus = "music" THEN setMusicVolume(am, volume)
                               ELSE setSfxVolume(am, volume)
    /\ call' = Called(IF bus = "music" THEN "setMusicVolume" ELSE "setSfxVolume",
                      << volume >>, "undefined")
    /\ UNCHANGED << storeVars, audioInitialized, audioSupported, sessionVars,
                    appVars, timerVars, preloader, bgm >>

callToggle(which) ==
    /\ LET t == CASE which = "music" -> toggleMusicMute(am)
                   [] which = "sfx"   -> toggleSfxMute(am)
                   [] OTHER           -> AudioToggleMute(am)
       IN  /\ am' = t.am
           /\ call' = Called(which, <<>>, IF t.ret THEN "true" ELSE "false")
    /\ UNCHANGED << storeVars, audioInitialized, audioSupported, sessionVars,
                    appVars, timerVars, preloader, bgm >>

callRestoreState(state) ==
    /\ am' = restoreState(am, state)
    /\ call' = Called("restoreState", <<>>, "undefined")
    /\ UNCHANGED << storeVars, audioInitialized, audioSupported, sessionVars,
                    appVars, timerVars, preloader, bgm >>

NextManager ==
    \/ callInit
    \/ \E bus \in {"music", "sfx"}, v \in VolumeInputs : callSetVolume(bus, v)
    \/ \E which \in {"music", "sfx", "both"} : callToggle(which)
    \/ \E state \in RestoreInputs : callRestoreState(state)

InitManager == InitAudio /\ persistedState.playerId = 1

SpecManager == InitManager /\ [][NextManager]_vars

\* ------------------------------------------------------------------------
\* SpecBgm: the background music methods of the AudioManager, with the
\* fetches, decodes and fade timers they leave pending
\* ------------------------------------------------------------------------
Tracks == { "menu.mp3", "level.mp3" }

callPlayBGM(url) ==
    /\ Len(bgm.calls) < MaxBgmCalls
    /\ am' = PlaySfx(am)                      \* await this.ensureReady()
    /\ bgm' = playBGM(bgm, url)
    /\ call' = Called("playBGM", << url >>, "undefined")
    /\ UNCHANGED << storeVars, audioInitialized, audioSupported, sessionVars,
                    appVars, timerVars, preloader >>

\* without an audio context this.audioContext.decodeAudioData throws
BgmDecoded ==
    \E i \in 1..Len(bgm.calls) :
        \E decoded \in (IF am.audioContext = NoContext THEN {FALSE} ELSE BOOLEAN) :
            /\ bgm.calls[i].pending
            /\ bgm' = bgmDecoded(bgm, i, decoded)
            /\ UNCHANGED << storeVars, audioVars, sessionVars, appVars, timerVars,
                            call, preloader >>

callStopBGM ==
    /\ bgm' = stopBGM(bgm)
    /\ call' = Called("stopBGM", <<>>, "undefined")
    /\ UNCHANGED << storeVars, audioVars, sessionVars, appVars, timerVars, preloader >>

callFadeOutBGM ==
    /\ bgm.fadeTimers < MaxFades
    /\ bgm' = fadeOutBGM(am, bgm).bgm
    /\ am' = fadeOutBGM(am, bgm).am
    /\ call' = Called("fadeOutBGM", <<>>, "undefined")
    /\ UNCHANGED << storeVars, audioInitialized, audioSupported, sessionVars,
                    appVars, timerVars, preloader >>

\* the setTimeout callback of fadeOutBGM
FadeTimeout ==
    /\ bgm.fadeTimers > 0
    /\ bgm' = [ stopBGM(bgm) EXCEPT !.fadeTimers = @ - 1 ]
    /\ am' = setMusicVolume(am, am.musicVolume)
    /\ call' = Called("fadeOutBGM callback", <<>>, "undefined")
    /\ UNCHANGED << storeVars, audioInitialized, audioSupported, sessionVars,
                    appVars, timerVars, preloader >>

NextBgm ==
    \/ \E url \in Tracks : callPlayBGM(url)
    \/ BgmDecoded
    \/ callStopBGM
    \/ callFadeOutBGM
    \/ FadeTimeout

SpecBgm == InitManager /\ [][NextBgm]_vars

\* ------------------------------------------------------------------------
\* SpecLeaderboard: progress, the player name and submitToLeaderboard
\* ------------------------------------------------------------------------
\* playerName of useGameState:
\*   persistedState.playerName || `Player ${playerId?.slice(-4) || '0000'}`
playerName ==
    IF persistedState.playerName # <<>>
    THEN persistedState.playerName
    ELSE << "P", "l", "a", "y", "e", "r", " ", KeyStr(persistedState.playerId) >>

\* the arguments submitToLeaderboard hands to LeaderboardService.submitScore,
\* << >> when it does not call it
submitScoreArgs ==
    LET name == IF persistedState.playerName # <<>>
                THEN persistedState.playerName ELSE playerName
        levelsCompleted == Len(persistedState.completedLevels)
        totalScore == persistedState.totalScore
    IN  IF totalScore > 0 /\ name # <<>>
        THEN << name, totalScore, levelsCompleted >>
        ELSE << >>

submitToLeaderboard ==
    /\ call' = Called("submitToLeaderboard", submitScoreArgs, "undefined")
    /\ UNCHANGED << storeVars, audioVars, sessionVars, appVars, timerVars,
                    preloader, bgm >>

NextLeaderboard ==
    \/ \E L \in 1..2, sc \in StoreScores : isLevelUnlocked(L) /\ completeLevel(L, sc)
    \/ \E name \in { << " " >>, << "a", "b" >> } : setPlayerName(name)
    \/ handleResetProgress
    \/ submitToLeaderboard
    \/ Reload

SpecLeaderboard == Init /\ [][NextLeaderboard]_vars

\* ------------------------------------------------------------------------
\* SpecIdentity: the profile and the session of level 1 driven through the
\* API of the hook, with reloads of the page
\* ------------------------------------------------------------------------
NextIdentity ==
    \/ completeLevel(1, 100)
    \/ updateSetting(<<"audio", "musicVolume">>, 42)
    \/ updateSettings(SettingsUpdates[1])
    \/ setPlayerName(<<"a", "b">>)
    \/ toggleMute
    \/ handleResetProgress
    \/ \E m \in { CorrectMouth(selectedLevelIndex), WrongMouth(selectedLevelIndex) } :
           handleMouthSelect(m)
    \/ ShakeTimeout
    \/ CelebrationTimeout
    \/ handleResetLevel
    \/ Reload

SpecIdentity == Init /\ [][NextIdentity]_vars

\* ------------------------------------------------------------------------
\* Properties of the store
\* ------------------------------------------------------------------------
Range(arr) == { arr[i] : i \in 1..Len(arr) }

NoDuplicates(arr) == \A i, j \in 1..Len(arr) : arr[i] = arr[j] => i = j

Occurrences(arr, x) == Cardinality({ i \in 1..Len(arr) : arr[i] = x })

\* the sum of the best scores, level by level
RECURSIVE BestScoreSum(_, _)
BestScoreSum(bestScores, n) ==
    IF n = 0 THEN 0
    ELSE (IF KeyStr(n) \in DOMAIN bestScores THEN bestScores[KeyStr(n)] ELSE 0)
         + BestScoreSum(bestScores, n - 1)

\* C1: in every reachable state and for every level id L and score,
\* completeLevel(L, score) leaves L+1 unlocked exactly when L+1 <= the number
\* of levels, adds no level other than L+1, and removes none.
C1_UnlockNext ==
    \A L \in LevelIds, s \in Scores :
        LET new == completeLevelUpdater(persistedState, L, s)
            before == Range(persistedState.unlockedLevels)
            after  == Range(new.unlockedLevels)
        IN  /\ ((L + 1) \in after) <=> (L + 1 <= NumLevels)
            /\ after \ before \subseteq {L + 1}
            /\ before \subseteq after
            /\ (L + 1 > NumLevels => new.unlockedLevels = persistedState.unlockedLevels)

\* completeLevel ran for the last level with every level unlocked
C1_Witness ==
    /\ call.op = "completeLevel"
    /\ call.args[1] = NumLevels
    /\ Range(persistedState.unlockedLevels) = LevelIds
    /\ Includes(persistedState.completedLevels, NumLevels)

\* C2: in every state reached by completeLevel, handleResetProgress,
\* handleHardReset, updateSetting, updateSettings, setPlayerName and
\* toggleMute, totalScore is the sum of the values in bestScores.
C2_TotalIsSum ==
    /\ persistedState.totalScore = BestScoreSum(persistedState.bestScores, NumLevels)
    /\ DOMAIN persistedState.bestScores \subseteq { KeyStr(L) : L \in LevelIds }

\* two levels have a best score and settings, name and mute were changed
C2_Witness ==
    /\ persistedState.totalScore = 140
    /\ Cardinality(DOMAIN persistedState.bestScores) = 2
    /\ persistedState.playerName # <<>>
    /\ persistedState.settings.audio.musicVolume = 42
    /\ persistedState.settings.haptics.intensity = 3
    /\ call.op = "toggleMute"

\* C3: completeLevel(L, s) sets bestScores[L] to the larger of s and the
\* previous best (0 when there was none), so it never decreases, and leaves
\* the best score of every other level as it was.
C3_BestScoreMax ==
    \A L \in LevelIds, s \in Scores :
        LET old == persistedState.bestScores
            new == completeLevelUpdater(persistedState, L, s).bestScores
            was == IF KeyStr(L) \in DOMAIN old THEN old[KeyStr(L)] ELSE 0
        IN  /\ new[KeyStr(L)] = (IF s > was THEN s ELSE was)
            /\ new[KeyStr(L)] >= was
            /\ DOMAIN new = (DOMAIN old) \cup {KeyStr(L)}
            /\ \A k \in (DOMAIN old) \ {KeyStr(L)} : new[k] = old[k]

\* a level was completed again with a lower score than its best
C3_Witness ==
    /\ call.op = "completeLevel"
    /\ call.args[2] = 40
    /\ persistedState.bestScores[KeyStr(call.args[1])] = 100
    /\ Cardinality(DOMAIN persistedState.bestScores) >= 2

\* C4: a second completeLevel(L, s) with the same arguments changes nothing,
\* in memory or in storage, and L occurs once in completedLevels; neither
\* completedLevels nor unlockedLevels holds a duplicate.
C4_Idempotent ==
    \A L \in LevelIds, s \in Scores :
        LET once  == completeLevelUpdater(persistedState, L, s)
            twice == completeLevelUpdater(once, L, s)
        IN  /\ twice = once
            /\ Persist(twice) = Persist(once)
            /\ Occurrences(once.completedLevels, L) = 1
            /\ NoDuplicates(once.completedLevels)
            /\ NoDuplicates(once.unlockedLevels)

\* completeLevel was called twice in a row with the same arguments
C4_Witness ==
    /\ call.op = "completeLevel"
    /\ call.again
    /\ Occurrences(persistedState.completedLevels, call.args[1]) = 1

\* C9: handleResetProgress sets unlockedLevels to [1], completedLevels to [],
\* bestScores to {}, totalScore and highScore to 0, returns true, and leaves
\* settings, playerName and playerId as they were.
C9_ResetProgress ==
    [][ call'.op = "handleResetProgress" =>
          /\ persistedState'.unlockedLevels = <<1>>
          /\ persistedState'.completedLevels = <<>>
          /\ persistedState'.bestScores = EmptyObj
          /\ persistedState'.totalScore = 0
          /\ persistedState'.highScore = 0
          /\ call'.ret = TRUE
          /\ persistedState'.settings = persistedState.settings
          /\ persistedState'.playerName = persistedState.playerName
          /\ persistedState'.playerId = persistedState.playerId
          /\ persistedState'.version = persistedState.version
          /\ DOMAIN persistedState' = DOMAIN persistedState ]_vars

\* progress was reset on a profile with a name and changed settings
C9_Witness ==
    /\ call.op = "handleResetProgress"
    /\ call.ret = TRUE
    /\ persistedState.playerName # <<>>
    /\ persistedState.settings # DEFAULT_SETTINGS
    /\ persistedState.completedLevels = <<>>

\* C10: for every settings leaf path p and value v, updateSetting(p, v), the
\* persist effect and loadPersistedState give the state before the update
\* with the field at p set to v and nothing else changed (whatever id the
\* load would generate); the state object handed to the updater is intact.
C10_SettingRoundTrip ==
    \A p \in SettingsLeafPaths :
        \A v \in SettingValues(p), id \in PlayerIds :
            LET r == updateSettingUpdater(persistedState, p, v)
                reloaded == loadPersistedState(Persist(r.updated), id)
            IN  /\ reloaded = [ persistedState EXCEPT !.settings[p[1]][p[2]] = v ]
                /\ r.prevAfter = persistedState

\* the page was reloaded after settings, name and progress had changed
C10_Witness ==
    /\ call.op = "mount"
    /\ persistedState.settings.audio.musicVolume = 42
    /\ persistedState.settings.haptics.intensity = 3
    /\ persistedState.settings.accessibility.highContrast
    /\ persistedState.completedLevels # <<>>
    /\ persistedState.playerName # <<>>

\* ------------------------------------------------------------------------
\* Properties of the session
\* ------------------------------------------------------------------------
ExpectedPoints(n) == IF n = 1 THEN 100 ELSE IF n = 2 THEN 70 ELSE 40

\* C5: a correct selection adds 100 points on the 1st attempt of the level,
\* 70 on the 2nd, 40 on the 3rd and on every later one; nothing else about
\* the session enters, and no selection adds less than 0 or more than 100.
C5_PointsByAttempt ==
    [][ /\ \A n \in 1..MaxAttempt : getPointsForAttempt(n) = ExpectedPoints(n)
        /\ call'.op = "getPointsForAttempt" => call'.ret = ExpectedPoints(call'.args[1])
        /\ call'.op = "handleMouthSelect" =>
             /\ sessionScore' - sessionScore \in 0..100
             /\ (isLevelComplete' /\ ~isLevelComplete) =>
                    sessionScore' - sessionScore = ExpectedPoints(attempts')
             /\ ~(isLevelComplete' /\ ~isLevelComplete) => sessionScore' = sessionScore
      ]_vars

\* the level was won on the 3rd attempt and the points of a 4th were asked
C5_Witness ==
    /\ isLevelComplete
    /\ attempts = 3
    /\ sessionScore = 40
    /\ call.op = "getPointsForAttempt"
    /\ call.args[1] = 4
    /\ call.ret = 40

\* C6: a session starts with 3 lives; each wrong selection takes one; after
\* three wrong selections and no correct one lives = 0 and gameOver holds;
\* gameOver turns true only in the step that takes the last life; a correct
\* selection with lives left completes the level and leaves gameOver false.
C6_Lives ==
    [][ /\ call'.op \in {"mount", "handleResetLevel"} => lives' = 3 /\ ~gameOver'
        /\ (attempts' = 3 /\ ~isLevelComplete') => (lives' = 0 /\ gameOver')
        /\ (~gameOver /\ gameOver') => (lives > 0 /\ lives' = 0)
        /\ gameOver' <=> lives' = 0
        /\ (call'.op = "handleMouthSelect" /\ attempts' = attempts + 1) =>
             IF call'.args[1] = CorrectMouth(selectedLevelIndex)
             THEN lives > 0 /\ isLevelComplete' /\ ~gameOver' /\ lives' = lives
             ELSE lives' = lives - 1 /\ ~isLevelComplete'
      ]_vars

\* three wrong selections in a row ended the session
C6_Witness ==
    /\ call.op = "handleMouthSelect"
    /\ attempts = 3
    /\ ~isLevelComplete
    /\ lives = 0
    /\ gameOver

\* C7 as stated: once level 1 was answered wrong, wrong, correct, the session
\* score is 40, one life is left, level 1 is completed and level 2 unlocked.
C7_Original ==
    (selectedLevelIndex = 0 /\ attempts = 3 /\ isLevelComplete) =>
        /\ sessionScore = 40
        /\ lives = 1
        /\ Includes(persistedState.completedLevels, 1)
        /\ Includes(persistedState.unlockedLevels, 2)

\* C8: completeLevel makes highScore the larger of the previous highScore
\* and the new totalScore, so highScore >= totalScore always; when level 1
\* is won at the first attempt (session score 100) and then completed on a
\* profile with no other best score, totalScore = 100 and highScore = 100.
C8_HighScore ==
    /\ persistedState.highScore >= persistedState.totalScore
    /\ \A L \in LevelIds, s \in Scores :
           LET new == completeLevelUpdater(persistedState, L, s)
           IN  new.highScore = IF persistedState.highScore >= new.totalScore
                               THEN persistedState.highScore ELSE new.totalScore
    /\ (call.op = "handleLevelWon" /\ call.args = << 1, 100 >>
          /\ DOMAIN persistedState.bestScores = {"1"}) =>
           (persistedState.totalScore = 100 /\ persistedState.highScore = 100)

\* level 1 was won at the first attempt and completed
C8_Witness ==
    /\ call.op = "handleLevelWon"
    /\ call.args = << 1, 100 >>
    /\ attempts = 1
    /\ sessionScore = 100
    /\ persistedState.completedLevels = <<1>>
    /\ persistedState.totalScore = 100
    /\ persistedState.highScore = 100

\* ------------------------------------------------------------------------
\* Properties of the preloader
\* ------------------------------------------------------------------------
\* a step in which an image of run i settled
SettledIn(i) ==
    /\ i \in 1..Len(preloader.runs)
    /\ preloader'.levelIndex = preloader.levelIndex
    /\ \/ preloader'.runs = RemoveAt(preloader.runs, i)
       \/ /\ Len(preloader'.runs) = Len(preloader.runs)
          /\ preloader'.runs[i] # preloader.runs[i]
          /\ \A k \in 1..Len(preloader.runs) : k # i => preloader'.runs[k] = preloader.runs[k]

\* ... and it was the last image the run waited for
SettledLastIn(i) == SettledIn(i) /\ preloader'.runs = RemoveAt(preloader.runs, i)

\* C11: isReady turns true only in the step that settles the last image of a
\* preload, and an image event leaves progress at 100 exactly when it settled
\* the last image of its preload, failures included.
C11_ReadyAfterAllSettled ==
    [][ \A i \in 1..Len(preloader.runs) :
          SettledIn(i) =>
            /\ (~preloader.isReady /\ preloader'.isReady) => SettledLastIn(i)
            /\ SettledLastIn(i) <=> (preloader'.progress = 100)
      ]_vars

\* C12: whenever isReady is false it becomes true later, provided image
\* requests keep settling, whichever of them fail.
C12_ReadyEventually ==
    (~preloader.isReady) ~> preloader.isReady

\* the hook is ready for the active level although an image of its preload
\* failed and another is still awaited
C12_Witness ==
    /\ preloader.isReady
    /\ \E i \in 1..Len(preloader.runs) :
           /\ preloader.runs[i].level = preloader.levelIndex
           /\ preloader.runs[i].rejected
           /\ preloader.runs[i].pending # {}

\* C13: a render with a new level leaves isReady true only if all images of
\* that level were cached, and isReady turns true only when an image of a
\* preload of the active level settles.
C13_ReadyForActiveLevel ==
    [][ /\ preloader'.levelIndex # preloader.levelIndex =>
             (preloader'.isReady =>
                  LevelImages(preloader'.levelIndex) \subseteq preloader.cacheRef)
        /\ (preloader'.levelIndex = preloader.levelIndex
              /\ ~preloader.isReady /\ preloader'.isReady) =>
             \E i \in 1..Len(preloader.runs) :
                 SettledIn(i) /\ preloader.runs[i].level = preloader.levelIndex
      ]_vars

\* ------------------------------------------------------------------------
\* Further properties of the session and the store
\* ------------------------------------------------------------------------
\* a step of a handler, not of a pending shake or celebration callback
HandlerStep == shakeTimers' >= shakeTimers /\ celebrationTimers' >= celebrationTimers

\* C14: a handleMouthSelect call made while isLevelComplete or gameOver holds
\* changes nothing of the session and nothing of the persisted state.
C14_SelectIgnored ==
    [][ (call'.op = "handleMouthSelect" /\ HandlerStep /\ (isLevelComplete \/ gameOver)) =>
            UNCHANGED << sessionVars, storeVars, timerVars >>
      ]_vars

\* the correct option was selected after the game was over, and ignored
C14_Witness ==
    /\ call.op = "handleMouthSelect"
    /\ call.args[1] = CorrectMouth(selectedLevelIndex)
    /\ gameOver
    /\ ~isLevelComplete
    /\ lives = 0
    /\ attempts = 3

\* level N+1 is unlocked only if level N is completed
UnlockedAfterCompleted(ps) ==
    \A i \in 1..Len(ps.unlockedLevels) :
        ps.unlockedLevels[i] >= 2 => Includes(ps.completedLevels, ps.unlockedLevels[i] - 1)

\* C15: in every state reachable from a fresh profile each unlocked level
\* above 1 has its predecessor among the completed levels; completeLevel of
\* any level with any score and a progress reset keep it so.
C15_UnlockOrder ==
    /\ UnlockedAfterCompleted(persistedState)
    /\ Includes(persistedState.unlockedLevels, 1)
    /\ \A L \in LevelIds, s \in Scores :
           UnlockedAfterCompleted(completeLevelUpdater(persistedState, L, s))
    /\ UnlockedAfterCompleted(resetProgressUpdater(persistedState))
    /\ storage # <<>> => \A id \in PlayerIds :
           UnlockedAfterCompleted(loadPersistedState(storage, id))

\* levels 1 and 2 were completed, level 3 is unlocked
C15_Witness ==
    /\ persistedState.unlockedLevels = <<1, 2, 3>>
    /\ persistedState.completedLevels = <<1, 2>>
    /\ call.op = "completeLevel"

\* C16: when durable storage is unavailable, no store operation raises an error
\* to its caller, and the in-memory state after the operation is the state
\* that working storage gives; for handleHardReset that state is the defaults
\* with an empty progress record.
C16_NoStorageSafe ==
    (~storageAvailable /\ call.op = "handleHardReset") =>
        /\ call.ret = "undefined"
        /\ persistedState = Spread(DEFAULT_STATE, [ playerId |-> persistedState.playerId ])

\* C17: loadPersistedState returns the defaults with a generated playerId when
\* there is no blob or the blob does not parse; otherwise every field of the
\* blob is retained (unknown ones too), every field, settings group and
\* settings leaf the blob lacks takes its default, and playerId is the stored
\* one when the blob has one and a generated one otherwise.
MergedOver(defaults, given, result) ==
    /\ \A k \in DOMAIN given : k \in DOMAIN result /\ result[k] = given[k]
    /\ \A k \in (DOMAIN defaults) \ (DOMAIN given) :
           k \in DOMAIN result /\ result[k] = defaults[k]

LoadedAs(stored, ps) ==
    IF stored = <<>> \/ ~IsJSONText(stored[1])
    THEN /\ ps.playerId \in PlayerIds
         /\ ps = Spread(DEFAULT_STATE, [ playerId |-> ps.playerId ])
    ELSE LET blob == JSONParse(stored[1])
             bset == OptField(blob, "settings")
             top  == (DOMAIN DEFAULT_STATE) \ {"playerId", "settings"}
         IN  /\ MergedOver(Restrict(DEFAULT_STATE, top),
                           Restrict(blob, (DOMAIN blob) \ {"playerId", "settings"}), ps)
             /\ ps.playerId = IF "playerId" \in DOMAIN blob
                               THEN blob.playerId ELSE ps.playerId
             /\ "playerId" \notin DOMAIN blob => ps.playerId \in PlayerIds
             /\ \A g \in (DOMAIN bset) \ (DOMAIN DEFAULT_SETTINGS) :
                    g \in DOMAIN ps.settings /\ ps.settings[g] = bset[g]
             /\ \A g \in DOMAIN DEFAULT_SETTINGS :
                    MergedOver(DEFAULT_SETTINGS[g], OptField(bset, g), ps.settings[g])

C17_LoadMerges ==
    [][ call'.op = "mount" => LoadedAs(storage, persistedState') ]_vars

\* a blob with a partial audio group, an unknown leaf, an unknown group and an
\* unknown field has been loaded
C17_Witness ==
    /\ call.op = "mount"
    /\ "legacy" \in DOMAIN persistedState
    /\ "beta" \in DOMAIN persistedState.settings
    /\ "extra" \in DOMAIN persistedState.settings.audio
    /\ persistedState.settings.audio.musicVolume = 10
    /\ persistedState.settings.audio.sfxVolume = DEFAULT_SETTINGS.audio.sfxVolume
    /\ persistedState.settings.haptics = DEFAULT_SETTINGS.haptics
    /\ persistedState.playerId \in PlayerIds

\* C18: after setPlayerName(name) the stored playerName has at most 20
\* characters and neither leading nor trailing whitespace, and a name that is
\* empty after trimming is stored as the empty string.
C18_NameTrimmed ==
    LET stored == persistedState.playerName
    IN  /\ Len(stored) <= MaxNameLen
        /\ stored # <<>> => (stored[1] # " " /\ stored[Len(stored)] # " ")
        /\ (call.op = "setPlayerName" /\ Trim(call.args[1]) = <<>>) => stored = <<>>

\* C19: playerId is immutable: completeLevel, updateSetting, updateSettings,
\* setPlayerName, toggleMute, handleResetProgress, handleMouthSelect,
\* handleResetLevel and a reload of the page on the persisted blob all leave
\* it as it was generated at load.
IdentityOps ==
    { "completeLevel", "updateSetting", "updateSettings", "setPlayerName",
      "toggleMute", "handleResetProgress", "handleMouthSelect",
      "handleResetLevel", "mount" }

C19_PlayerIdImmutable ==
    [][ call'.op \in IdentityOps =>
            /\ persistedState'.playerId = persistedState.playerId
            /\ persistedState'.playerId \in PlayerIds ]_vars

\* a page reloaded after the profile and the progress were changed
C19_Witness ==
    /\ call.op = "mount"
    /\ persistedState.playerName = <<"a", "b">>
    /\ persistedState.completedLevels = <<1>>
    /\ persistedState.settings.audio.musicVolume = 42
    /\ persistedState.playerId \in PlayerIds

\* C20: the audio synthesizer becomes Ready at most once: once init() has
\* succeeded, a further init() call is a no-op, and no operation of the page
\* replaces the audio context or takes the synthesizer out of Ready; the
\* gain buses and the volume and mute fields are as the call found them.
C20_InitOnce ==
    [][ (am.initialized /\ call'.op # "mount") =>
            /\ am'.initialized
            /\ am'.audioContext = am.audioContext
            /\ am'.masterGain = am.masterGain
            /\ call'.op = "handleTestSound" => am' = am
            /\ \A supported \in BOOLEAN : AudioInit(am, supported) = am ]_vars

\* the sound test pressed again on a synthesizer that is Ready, muted and off
\* its default volume
C20_Witness ==
    /\ call.op = "handleTestSound"
    /\ call.again
    /\ am.initialized
    /\ am.audioContext = 1
    /\ am.musicVolume = 42
    /\ am.isMusicMuted
    /\ am.musicGain = 0

\* C21: a tone cue called while no audio context exists (before the first
\* initialize, or where creating the context fails) completes without raising
\* an error and schedules no sound.
C21_CueWithoutContext ==
    (call.op \in Cues /\ am.audioContext = NoContext) => call.ret = "silent"

\* C22: the stored musicVolume and sfxVolume lie within [0,100] after any
\* sequence of init, setMusicVolume, setSfxVolume, the toggles and
\* restoreState, a setter stores its argument clamped to [0,100], and the gain
\* of a bus is 0 when the bus is muted and volume / 100 otherwise.
GainOf(volume, muted) == IF muted THEN 0 ELSE volume

C22_VolumesClamped ==
    /\ am.musicVolume \in 0..100
    /\ am.sfxVolume \in 0..100
    /\ call.op = "setMusicVolume" => am.musicVolume = Max(0, Min(100, call.args[1]))
    /\ call.op = "setSfxVolume" => am.sfxVolume = Max(0, Min(100, call.args[1]))
    /\ am.initialized =>
           /\ am.musicGain = GainOf(am.musicVolume, am.isMusicMuted)
           /\ am.sfxGain = GainOf(am.sfxVolume, am.isSfxMuted)

\* C23: toggleMute acts on both buses together: afterwards isMusicMuted and
\* isSfxMuted, in the AudioManager and in the persisted settings, equal the
\* returned value, and so does the derived isMuted flag; the returned value
\* is "unmuted" exactly when both buses were muted before the call.
C23_ToggleBoth ==
    [][ call'.op = "toggleMute" =>
            /\ am'.isMusicMuted = call'.ret
            /\ am'.isSfxMuted = call'.ret
            /\ persistedState'.settings.audio.isMusicMuted = call'.ret
            /\ persistedState'.settings.audio.isSfxMuted = call'.ret
            /\ isMuted' = call'.ret
            /\ call'.ret = ~(am.isMusicMuted /\ am.isSfxMuted)
            /\ call'.ret = ~isMuted ]_vars

\* toggleMute has unmuted a synthesizer that is Ready
C23_Witness ==
    /\ call.op = "toggleMute"
    /\ call.ret = FALSE
    /\ am.initialized
    /\ am.sfxGain = am.sfxVolume
    /\ am.musicVolume = 42
    /\ ~isMuted

\* C24: under every interleaving of playBGM, stopBGM and fadeOutBGM at most
\* one music track is playing on the music bus, and it is the track of the
\* most recent playBGM call.
C24_OneTrack ==
    /\ Cardinality(bgm.started) <= 1
    /\ \A i \in bgm.started : bgm.calls[i].url = bgm.calls[Len(bgm.calls)].url

\* C25: submitToLeaderboard does not call LeaderboardService.submitScore when
\* totalScore is zero or the player's name is not set; otherwise it submits
\* exactly (playerName, totalScore, number of completed levels).
C25_SubmitGuard ==
    call.op = "submitToLeaderboard" =>
        IF persistedState.totalScore = 0 \/ persistedState.playerName = <<>>
        THEN call.args = << >>
        ELSE call.args = << persistedState.playerName, persistedState.totalScore,
                            Len(persistedState.completedLevels) >>

\* C26: when the player has won level L and triggered handleLevelWon, the
\* 3000 ms callback moves the active level index to level L+1 with the session
\* reset whenever L is not the last level (the first completion of L
\* included), and returns to level select only when L is the last level.
AdvanceStep ==
    /\ advanceTimers # <<>>
    /\ advanceTimers' = Tail(advanceTimers)
    /\ call' = call

C26_AdvanceAfterWin ==
    [][ AdvanceStep =>
            IF Head(advanceTimers).levelNumber < NumLevels
            THEN /\ selectedLevelIndex' = Head(advanceTimers).levelNumber
                 /\ gameState' = "PLAYING"
                 /\ attempts' = 0 /\ lives' = INITIAL_LIVES /\ sessionScore' = 0
                 /\ ~isLevelComplete' /\ ~gameOver'
            ELSE gameState' = "LEVEL_SELECT" ]_vars

\* C27: every deferred callback (shake and selection clear, celebration,
\* auto-advance) is cancelled when the level changes, the session is reset or
\* the screen is left: right after such a step none of them is pending, so
\* none can act on the later level or session.
LeavingOps ==
    { "handleResetLevel", "handleSelectLevel", "handleBackToMenu",
      "handleBackToLevelSelect" }

\* a step of one of these handlers: the timer callbacks keep call and take a
\* timer away
LeavingStep ==
    /\ call'.op \in LeavingOps
    /\ HandlerStep
    /\ Len(advanceTimers') >= Len(advanceTimers)
    /\ Len(transitionTimers') >= Len(transitionTimers)

C27_TimersCancelled ==
    [][ LeavingStep =>
            /\ shakeTimers' = 0
            /\ celebrationTimers' = 0
            /\ advanceTimers' = <<>> ]_vars

\* C28: in every state reachable from a fresh session by handleMouthSelect and
\* handleResetLevel, isLevelComplete and gameOver are never both true.
C28_CompleteOrOver == ~(isLevelComplete /\ gameOver)

\* the level won with the last life
C28_Witness ==
    /\ isLevelComplete
    /\ ~gameOver
    /\ lives = 1
    /\ attempts = INITIAL_LIVES
    /\ call.op = "handleMouthSelect"

\* C29: within one level, in every state reachable from a fresh session by
\* handleMouthSelect and handleResetLevel, 0 <= lives <= 3 and attempts is
\* (3 - lives), plus one when the level is complete; so a correct answer is
\* scored at attempt 1, 2 or 3 and the session score after a win is 100, 70
\* or 40.
C29_LivesAndAttempts ==
    /\ lives \in 0..INITIAL_LIVES
    /\ attempts = (INITIAL_LIVES - lives) + (IF isLevelComplete THEN 1 ELSE 0)
    /\ isLevelComplete =>
           /\ attempts \in 1..INITIAL_LIVES
           /\ sessionScore \in {100, 70, 40}
           /\ sessionScore = ExpectedPoints(attempts)
    /\ ~isLevelComplete => sessionScore = 0

\* a level won at the second attempt, the callbacks of both selections pending
C29_Witness ==
    /\ isLevelComplete
    /\ attempts = 2
    /\ lives = 2
    /\ sessionScore = 70
    /\ celebrationTimers > 0
    /\ shakeTimers > 0

\* C30: in every state reachable from a fresh profile by completeLevel,
\* handleResetProgress and handleHardReset, the level ids with an entry in
\* bestScores are exactly the completed levels, and unlockedLevels contains
\* level 1 and has no duplicates.
C30_BestScoresOfCompleted ==
    /\ DOMAIN persistedState.bestScores =
           { KeyStr(L) : L \in Range(persistedState.completedLevels) }
    /\ 1 \in Range(persistedState.unlockedLevels)
    /\ NoDuplicates(persistedState.unlockedLevels)

\* level 1 replayed with a lower score after level 2 was completed
C30_Witness ==
    /\ call.op = "completeLevel"
    /\ call.args = << 1, 40 >>
    /\ persistedState.completedLevels = <<1, 2>>
    /\ persistedState.bestScores["1"] = 100
    /\ persistedState.bestScores["2"] = 40
    /\ persistedState.unlockedLevels = <<1, 2, 3>>

====
